---- MODULE Spec2Model ----
(***************************************************************************)
(* Model of packages/apollo-server-koa/src/ApolloServer.ts: the middleware *)
(* chain that applyMiddleware registers on a Koa application, and the way  *)
(* requests travel through it.                                             *)
(*                                                                         *)
(* JavaScript runs one synchronous segment at a time: a request runs from  *)
(* its arrival (or from the resumption of an await) to its next await      *)
(* without interleaving.  Every action below is one such segment, computed *)
(* by the operator compose, which walks the registered middleware the way  *)
(* koa-compose does.  Different requests interleave at the awaits only.    *)
(***************************************************************************)
EXTENDS Naturals, Sequences, FiniteSets

\* ------------------------------------------------------------- bounds
\* Number of request slots (requests that may be in flight together).
NumRequests == 2
\* Longest ranked accept list a request carries.
MaxAccept == 2

\* ---------------------------------------------------------- constants
HealthPath == "/.well-known/apollo/server-health"
DefaultPath == "/graphql"
\* "" stands for an option that was not given (undefined; falsy like '').
Unset == ""

Paths == {DefaultPath, "/play", HealthPath}
Methods == {"GET", "POST"}
Types == {"text/html", "application/json", "*/*"}
ContentTypes == {"multipart/form-data", "application/json"}

\* Ranked accept lists: sequences of distinct types, at most MaxAccept long.
AcceptLists ==
  UNION { { s \in [1..n -> Types] : \A i, j \in 1..n : i # j => s[i] # s[j] }
          : n \in 0..MaxAccept }

\* What a request carries when it arrives.
AllRequests ==
  [path : Paths, method : Methods, accept : AcceptLists, contentType : ContentTypes]

\* ServerRegistration (without app).
AllRegistrations ==
  [path : {Unset} \cup Paths,
   playgroundPath : {Unset} \cup Paths,
   cors : {"true", "false", "undefined", "options"},
   bodyParserConfig : {"true", "false", "undefined", "options"},
   disableHealthCheck : BOOLEAN,
   onHealthCheck : BOOLEAN]

\* Errors the upload processor may reject with: status 0 is "no status".
UploadErrors == [status : {0, 422}, expose : BOOLEAN]

Requests == 1..NumRequests

VARIABLES
  middleware,        \* app.middleware: the stages registered with app.use
  closure,           \* what the registered closures captured
  willStartCalls,    \* how many times willStart() was invoked
  promiseWillStart,  \* "none" | "pending" | "resolved" | "rejected"
  graphqlPath,       \* this.graphqlPath
  playgroundPath,    \* this.playgroundPath
  uploadsConfig,     \* this.uploadsConfig is set
  playgroundOptions, \* this.playgroundOptions is set
  reqs               \* the Koa context of each request slot

vars == <<middleware, closure, willStartCalls, promiseWillStart, graphqlPath,
          playgroundPath, uploadsConfig, playgroundOptions, reqs>>

\* ------------------------------------------------------ Koa's context
\* A fresh Koa context: status 404 until a body or a status is set.
\* uploadError keeps the error the upload processor rejected with, if any.
NewContext(q) ==
  [phase |-> "running", at |-> 0,
   path |-> q.path, method |-> q.method, accept |-> q.accept,
   contentType |-> q.contentType,
   log |-> <<>>,
   status |-> 404, explicitStatus |-> FALSE,
   type |-> "", body |-> "", requestBody |-> "", cors |-> "", error |-> "none",
   uploadError |-> <<>>]

Idle == [NewContext([path |-> "", method |-> "", accept |-> <<>>,
                     contentType |-> ""]) EXCEPT !.phase = "idle"]

\* ctx.body = b: Koa sets status 200 unless a status was set explicitly.
SetBody(ctx, b) ==
  [ctx EXCEPT !.body = b, !.status = IF ctx.explicitStatus THEN @ ELSE 200]

\* ctx.status = s
SetStatus(ctx, s) == [ctx EXCEPT !.status = s, !.explicitStatus = TRUE]

\* ctx.set('Content-Type', t)
SetType(ctx, t) == [ctx EXCEPT !.type = t]

\* The log of a request: <<i, "skip">> the path gate of stage i called the
\* continuation; <<i, "run">> the inner middleware of stage i was invoked;
\* <<i, "next">> the inner middleware of stage i called its continuation;
\* <<i, what>> for what the inner middleware of stage i did.
Log(ctx, i, ev) == [ctx EXCEPT !.log = Append(@, <<i, ev>>)]

\* The middleware awaits: the segment ends, the request waits at stage i.
Suspend(ctx, ph, i) == [ctx EXCEPT !.phase = ph, !.at = i]

\* The middleware returns without calling next: the chain's promise resolves.
Return(ctx) == [ctx EXCEPT !.phase = "done", !.at = 0]

\* The middleware throws (its promise rejects): Koa's error handling takes over.
Throw(ctx, e) == [ctx EXCEPT !.phase = "failed", !.at = 0, !.error = e]

\* ------------------------------------------------- the middleware
\* One registered stage: app.use(middlewareFromPath(path, <kind>)).
Stage(kind, path, opts) == [kind |-> kind, path |-> path, opts |-> opts]

RECURSIVE compose(_, _, _, _)

\* The continuation handed to stage i: koa-compose's dispatch(i + 1).
next(mw, ctx, i, env) == compose(mw, Log(ctx, i, "next"), i + 1, env)

\* A gate that does not await the future: it calls next at once.
initGateNoAwait(mw, ctx, i, env) == next(mw, ctx, i, env)

\* async (_ctx, next) => { await promiseWillStart; return next(); }
\* The part before the await: the request waits for the shared future.
initGate(mw, ctx, i, env) == Suspend(ctx, "initGate", i)

\* A health check handler that goes on down the chain after answering.
healthCheckCallsNext(mw, ctx, i, env) ==
  LET c1 == SetType(ctx, "application/health+json") IN
  IF closure.onHealthCheck
    THEN IF env.healthThrows
           THEN Throw(Log(c1, i, "onHealthCheck"), "healthCheck")
           ELSE Suspend(Log(c1, i, "onHealthCheck"), "health", i)
    ELSE next(mw, SetBody(c1, "pass"), i, env)

\* The health check handler; env.healthThrows: the callback throws when it
\* is invoked instead of returning a promise.
healthCheck(mw, ctx, i, env) ==
  LET c1 == SetType(ctx, "application/health+json") IN
  IF closure.onHealthCheck
    THEN IF env.healthThrows
           THEN Throw(Log(c1, i, "onHealthCheck"), "healthCheck")
           ELSE Suspend(Log(c1, i, "onHealthCheck"), "health", i)
    ELSE Return(SetBody(c1, "pass"))

\* @koa/cors: adds the headers its options ask for and calls next.
corsMiddleware(mw, ctx, i, env) ==
  next(mw, [ctx EXCEPT !.cors = mw[i].opts], i, env)

\* koa-bodyparser: awaits the parse of the body.
bodyParser(mw, ctx, i, env) == Suspend(ctx, "bodyParser", i)

\* typeis(ctx.req, ['multipart/form-data'])
typeis(ctx) == ctx.contentType = "multipart/form-data"

\* An interceptor that hands every request to the upload processor.
fileUploadMiddlewareAlways(mw, ctx, i, env) ==
  Suspend(Log(ctx, i, "processFileUploads"), "upload", i)

\* fileUploadMiddleware, up to its await.
fileUploadMiddleware(mw, ctx, i, env) ==
  IF typeis(ctx)
    THEN Suspend(Log(ctx, i, "processFileUploads"), "upload", i)
    ELSE next(mw, ctx, i, env)

\* A preference for HTML whenever text/html is in the list.
prefersHTMLAnywhere(types) == \E k \in 1..Len(types) : types[k] = "text/html"

\* types.find(x => x === 'text/html' || x === 'application/json')
find(types) ==
  LET hits == { k \in 1..Len(types) :
                  types[k] = "text/html" \/ types[k] = "application/json" } IN
  IF hits = {} THEN Unset
  ELSE types[CHOOSE k \in hits : \A l \in hits : k <= l]

prefersHTML(types) == find(types) = "text/html"

\* graphqlKoa(...)(ctx, next): the execution engine is invoked and the
\* request waits for it; the engine does not call next.
graphqlKoa(mw, ctx, i, env) == Suspend(Log(ctx, i, "graphqlKoa"), "engine", i)

\* ctx.set('Content-Type', 'text/html'); ctx.body = renderPlaygroundPage(...)
renderPlayground(ctx, i) ==
  SetBody(SetType(Log(ctx, i, "renderPlaygroundPage"), "text/html"), "playground")

\* A dispatcher that never serves the playground.
dispatcherEngineOnly(mw, ctx, i, env) == graphqlKoa(mw, ctx, i, env)

\* A dispatcher that does not look at the method.
dispatcherAnyMethod(mw, ctx, i, env) ==
  IF /\ closure.playgroundRenderPageOptions
     /\ closure.path = closure.playgroundPath
     /\ prefersHTML(ctx.accept)
    THEN Return(renderPlayground(ctx, i))
    ELSE graphqlKoa(mw, ctx, i, env)

\* A dispatcher that serves the playground wherever its own path is.
dispatcherAnyPlaygroundPath(mw, ctx, i, env) ==
  IF /\ closure.playgroundRenderPageOptions
     /\ ctx.method = "GET"
     /\ prefersHTML(ctx.accept)
    THEN Return(renderPlayground(ctx, i))
    ELSE graphqlKoa(mw, ctx, i, env)

\* The dispatcher registered on the execution path.
dispatcher(mw, ctx, i, env) ==
  IF /\ closure.playgroundRenderPageOptions
     /\ closure.path = closure.playgroundPath
     /\ ctx.method = "GET"
     /\ prefersHTML(ctx.accept)
    THEN Return(renderPlayground(ctx, i))
    ELSE graphqlKoa(mw, ctx, i, env)

\* A playground handler that negotiates like the dispatcher.
playgroundHandlerNegotiating(mw, ctx, i, env) ==
  IF prefersHTML(ctx.accept) THEN Return(renderPlayground(ctx, i))
  ELSE next(mw, ctx, i, env)

\* The handler registered on the playground path when it differs.
playgroundHandler(mw, ctx, i, env) == Return(renderPlayground(ctx, i))

\* The inner middleware of stage i.
inner(mw, ctx, i, env) ==
  CASE mw[i].kind = "initGate" -> initGate(mw, ctx, i, env)
    [] mw[i].kind = "healthCheck" -> healthCheck(mw, ctx, i, env)
    [] mw[i].kind = "cors" -> corsMiddleware(mw, ctx, i, env)
    [] mw[i].kind = "bodyParser" -> bodyParser(mw, ctx, i, env)
    [] mw[i].kind = "upload" -> fileUploadMiddleware(mw, ctx, i, env)
    [] mw[i].kind = "dispatcher" -> dispatcher(mw, ctx, i, env)
    [] mw[i].kind = "playground" -> playgroundHandler(mw, ctx, i, env)

\* A wrapper that invokes the inner middleware on every path.
middlewareFromAnyPath(path, mw, ctx, i, env) ==
  inner(mw, Log(ctx, i, "run"), i, env)

\* middlewareFromPath(path, middleware)(ctx, next)
middlewareFromPath(path, mw, ctx, i, env) ==
  IF ctx.path = path
    THEN inner(mw, Log(ctx, i, "run"), i, env)
    ELSE compose(mw, Log(ctx, i, "skip"), i + 1, env)

\* koa-compose: dispatch(i); past the last stage the chain's promise resolves.
compose(mw, ctx, i, env) ==
  IF i > Len(mw) THEN Return(ctx)
  ELSE middlewareFromPath(mw[i].path, mw, ctx, i, env)

\* ------------------------------------------------- applyMiddleware
\* if (!path) path = '/graphql'
pathOf(c) == IF c.path = Unset THEN DefaultPath ELSE c.path

\* if (!playgroundPath) playgroundPath = path
playgroundPathOf(c) ==
  IF c.playgroundPath = Unset THEN pathOf(c) ELSE c.playgroundPath

\* A registration that adds the CORS stage whatever cors is.
corsStagesAlways(c) ==
  <<Stage("cors", pathOf(c),
          IF c.cors \in {"true", "undefined", "false"} THEN "default" ELSE "options")>>

\* cors === true: corsMiddleware(); cors !== false: corsMiddleware(cors),
\* which for an undefined cors is the default options too.
corsStages(c) ==
  IF c.cors = "true" THEN <<Stage("cors", pathOf(c), "default")>>
  ELSE IF c.cors # "false"
    THEN <<Stage("cors", pathOf(c),
                 IF c.cors = "undefined" THEN "default" ELSE "options")>>
    ELSE <<>>

bodyParserStages(c) ==
  IF c.bodyParserConfig = "true" THEN <<Stage("bodyParser", pathOf(c), "default")>>
  ELSE IF c.bodyParserConfig # "false"
    THEN <<Stage("bodyParser", pathOf(c),
                 IF c.bodyParserConfig = "undefined" THEN "default" ELSE "options")>>
    ELSE <<>>

\* A registration that puts the dispatcher before the upload interceptor.
appUseDispatcherFirst(c) ==
     <<Stage("initGate", pathOf(c), "")>>
  \o (IF ~c.disableHealthCheck
        THEN <<Stage("healthCheck", HealthPath, "")>> ELSE <<>>)
  \o corsStages(c)
  \o bodyParserStages(c)
  \o <<Stage("dispatcher", pathOf(c), "")>>
  \o (IF uploadsConfig THEN <<Stage("upload", pathOf(c), "")>> ELSE <<>>)
  \o (IF playgroundOptions /\ pathOf(c) # playgroundPathOf(c)
        THEN <<Stage("playground", playgroundPathOf(c), "")>> ELSE <<>>)

\* A registration whose init gate also stands on the health path.
appUseGatedHealth(c) ==
     <<Stage("initGate", pathOf(c), ""), Stage("initGate", HealthPath, "")>>
  \o (IF ~c.disableHealthCheck
        THEN <<Stage("healthCheck", HealthPath, "")>> ELSE <<>>)
  \o corsStages(c)
  \o bodyParserStages(c)
  \o (IF uploadsConfig THEN <<Stage("upload", pathOf(c), "")>> ELSE <<>>)
  \o <<Stage("dispatcher", pathOf(c), "")>>
  \o (IF playgroundOptions /\ pathOf(c) # playgroundPathOf(c)
        THEN <<Stage("playground", playgroundPathOf(c), "")>> ELSE <<>>)

\* A registration whose init gate also stands on the playground path.
appUseGatedPlayground(c) ==
     <<Stage("initGate", pathOf(c), "")>>
  \o (IF pathOf(c) # playgroundPathOf(c)
        THEN <<Stage("initGate", playgroundPathOf(c), "")>> ELSE <<>>)
  \o (IF ~c.disableHealthCheck
        THEN <<Stage("healthCheck", HealthPath, "")>> ELSE <<>>)
  \o corsStages(c)
  \o bodyParserStages(c)
  \o (IF uploadsConfig THEN <<Stage("upload", pathOf(c), "")>> ELSE <<>>)
  \o <<Stage("dispatcher", pathOf(c), "")>>
  \o (IF playgroundOptions /\ pathOf(c) # playgroundPathOf(c)
        THEN <<Stage("playground", playgroundPathOf(c), "")>> ELSE <<>>)

\* The app.use calls of applyMiddleware, in the order it makes them.
appUse(c) ==
     <<Stage("initGate", pathOf(c), "")>>
  \o (IF ~c.disableHealthCheck
        THEN <<Stage("healthCheck", HealthPath, "")>> ELSE <<>>)
  \o corsStages(c)
  \o bodyParserStages(c)
  \o (IF uploadsConfig THEN <<Stage("upload", pathOf(c), "")>> ELSE <<>>)
  \o <<Stage("dispatcher", pathOf(c), "")>>
  \o (IF playgroundOptions /\ pathOf(c) # playgroundPathOf(c)
        THEN <<Stage("playground", playgroundPathOf(c), "")>> ELSE <<>>)

\* A registration that leaves the startup routine for later.
willStartLater(calls) == [calls |-> calls, promise |-> "pending"]

\* const promiseWillStart = this.willStart(): the number of invocations and
\* the state of the future after the call.
willStart(calls) == [calls |-> calls + 1, promise |-> "pending"]

\* applyMiddleware(c), called once in the life of a server instance.
ApplyMiddleware(c) ==
  /\ promiseWillStart = "none"
  /\ willStartCalls' = willStart(willStartCalls).calls
  /\ promiseWillStart' = willStart(willStartCalls).promise
  /\ middleware' = middleware \o appUse(c)
  /\ closure' = [path |-> pathOf(c),
                 playgroundPath |-> playgroundPathOf(c),
                 playgroundRenderPageOptions |-> playgroundOptions,
                 onHealthCheck |-> c.onHealthCheck]
  /\ graphqlPath' = pathOf(c)
  /\ playgroundPath' = playgroundPathOf(c)
  /\ UNCHANGED <<uploadsConfig, playgroundOptions, reqs>>

\* The startup routine ends well: the future resolves, once.
WillStartResolve ==
  /\ promiseWillStart = "pending"
  /\ promiseWillStart' = "resolved"
  /\ UNCHANGED <<middleware, closure, willStartCalls, graphqlPath,
                 playgroundPath, uploadsConfig, playgroundOptions, reqs>>

\* The startup routine fails: the future rejects, once.
WillStartReject ==
  /\ promiseWillStart = "pending"
  /\ promiseWillStart' = "rejected"
  /\ UNCHANGED <<middleware, closure, willStartCalls, graphqlPath,
                 playgroundPath, uploadsConfig, playgroundOptions, reqs>>

\* ------------------------------------------------------- requests
server == <<middleware, closure, willStartCalls, promiseWillStart,
            graphqlPath, playgroundPath, uploadsConfig, playgroundOptions>>

NoEnv == [healthThrows |-> FALSE]

\* A request arrives and runs down the chain to its first await.  Slots
\* are taken in order (which slot a request takes is of no consequence).
Request(r, q, env) ==
  /\ promiseWillStart # "none"
  /\ reqs[r].phase = "idle"
  /\ \A s \in Requests : s < r => reqs[s].phase # "idle"
  /\ reqs' = [reqs EXCEPT ![r] = compose(middleware, NewContext(q), 1, env)]
  /\ UNCHANGED server

\* A gate that calls next whatever became of the future.
initGateResumedAnyway(mw, ctx, i, env) == next(mw, ctx, i, env)

\* The init gate after its await: next() once the future has resolved, the
\* startup error thrown once it has rejected.
initGateResumed(mw, ctx, i, env) ==
  IF promiseWillStart = "resolved"
    THEN next(mw, ctx, i, env)
    ELSE Throw(ctx, "startup")

\* A future that wakes one waiter only: the first to resume.
InitGateResumeOne(r, env) ==
  /\ reqs[r].phase = "initGate"
  /\ promiseWillStart \in {"resolved", "rejected"}
  /\ \A s \in Requests :
       \A k \in DOMAIN reqs[s].log : reqs[s].log[k][2] # "next"
  /\ reqs' = [reqs EXCEPT
       ![r] = initGateResumed(middleware, reqs[r], reqs[r].at, env)]
  /\ UNCHANGED server

InitGateResume(r, env) ==
  /\ reqs[r].phase = "initGate"
  /\ promiseWillStart \in {"resolved", "rejected"}
  /\ reqs' = [reqs EXCEPT
       ![r] = initGateResumed(middleware, reqs[r], reqs[r].at, env)]
  /\ UNCHANGED server

\* koa-bodyparser after the parse: ctx.request.body is set, then next().
bodyParserResumed(mw, ctx, i, env) ==
  next(mw, [ctx EXCEPT !.requestBody = IF typeis(ctx) THEN "empty" ELSE "parsed"],
       i, env)

BodyParserResume(r) ==
  /\ reqs[r].phase = "bodyParser"
  /\ reqs' = [reqs EXCEPT
       ![r] = bodyParserResumed(middleware, reqs[r], reqs[r].at, NoEnv)]
  /\ UNCHANGED server

\* koa-bodyparser cannot parse the body: its error goes to the host.
BodyParserFail(r) ==
  /\ reqs[r].phase = "bodyParser"
  /\ reqs' = [reqs EXCEPT ![r] = Throw(reqs[r], "bodyParser")]
  /\ UNCHANGED server

\* ctx.request.body = await processFileUploads(...); return next();
fileUploadResolved(mw, ctx, i, env) ==
  next(mw, [ctx EXCEPT !.requestBody = "uploads"], i, env)

UploadResolve(r) ==
  /\ reqs[r].phase = "upload"
  /\ reqs' = [reqs EXCEPT
       ![r] = fileUploadResolved(middleware, reqs[r], reqs[r].at, NoEnv)]
  /\ UNCHANGED server

\* formatApolloErrors([error], {formatter, debug})
formatApolloErrors(error) == "formatted"

\* A catch that never copies the status.
fileUploadRejectedNoStatus(ctx, error) ==
  Throw([ctx EXCEPT !.uploadError = <<error>>], formatApolloErrors(error))

\* A catch that copies every status, exposable or not.
fileUploadRejectedAnyStatus(ctx, error) ==
  Throw(IF error.status # 0
          THEN SetStatus([ctx EXCEPT !.uploadError = <<error>>], error.status)
          ELSE [ctx EXCEPT !.uploadError = <<error>>],
        formatApolloErrors(error))

\* catch (error) { if (error.status && error.expose) ctx.status = error.status;
\*                 throw formatApolloErrors(...) }
fileUploadRejected(ctx, error) ==
  Throw(IF error.status # 0 /\ error.expose
          THEN SetStatus([ctx EXCEPT !.uploadError = <<error>>], error.status)
          ELSE [ctx EXCEPT !.uploadError = <<error>>],
        formatApolloErrors(error))

UploadReject(r, error) ==
  /\ reqs[r].phase = "upload"
  /\ reqs' = [reqs EXCEPT ![r] = fileUploadRejected(reqs[r], error)]
  /\ UNCHANGED server

\* .then(() => { ctx.body = { status: 'pass' }; })
healthCheckResolved(ctx) ==
  Return(SetBody(Log(ctx, ctx.at, "onHealthCheck.then"), "pass"))

HealthCheckResolve(r) ==
  /\ reqs[r].phase = "health"
  /\ reqs' = [reqs EXCEPT ![r] = healthCheckResolved(reqs[r])]
  /\ UNCHANGED server

\* A catch that sets the body and forgets the status.
healthCheckRejectedNoStatus(ctx) ==
  Return(SetBody(Log(ctx, ctx.at, "onHealthCheck.catch"), "fail"))

\* .catch(() => { ctx.status = 503; ctx.body = { status: 'fail' }; })
healthCheckRejected(ctx) ==
  Return(SetBody(SetStatus(Log(ctx, ctx.at, "onHealthCheck.catch"), 503), "fail"))

HealthCheckReject(r) ==
  /\ reqs[r].phase = "health"
  /\ reqs' = [reqs EXCEPT ![r] = healthCheckRejected(reqs[r])]
  /\ UNCHANGED server

\* The execution engine settles the response itself.
graphqlKoaSettled(ctx) ==
  Return(SetBody(SetType(ctx, "application/json"), "graphql"))

EngineSettle(r) ==
  /\ reqs[r].phase = "engine"
  /\ reqs' = [reqs EXCEPT ![r] = graphqlKoaSettled(reqs[r])]
  /\ UNCHANGED server

\* ------------------------------------------------- specifications
\* State after construction: nothing registered, no request.
Init ==
  /\ middleware = <<>>
  /\ closure = [path |-> Unset, playgroundPath |-> Unset,
                playgroundRenderPageOptions |-> FALSE, onHealthCheck |-> FALSE]
  /\ willStartCalls = 0
  /\ promiseWillStart = "none"
  /\ graphqlPath = Unset
  /\ playgroundPath = Unset
  /\ uploadsConfig \in BOOLEAN
  /\ playgroundOptions \in BOOLEAN
  /\ reqs = [r \in Requests |-> Idle]

Envs == [healthThrows : BOOLEAN]

\* The steps of the requests in Rs, arriving with what Qs holds, of a
\* server registered with one of Cs.
Register(Cs) == \E c \in Cs : ApplyMiddleware(c)
Arrive(Rs, Qs) == \E r \in Rs, q \in Qs, env \in Envs : Request(r, q, env)
PassGate(Rs) == \E r \in Rs, env \in Envs : InitGateResume(r, env)
ParseBody(Rs) == \E r \in Rs : BodyParserResume(r) \/ BodyParserFail(r)
Upload(Rs) ==
  \E r \in Rs : UploadResolve(r) \/ \E e \in UploadErrors : UploadReject(r, e)
Health(Rs) == \E r \in Rs : HealthCheckResolve(r) \/ HealthCheckReject(r)
Engine(Rs) == \E r \in Rs : EngineSettle(r)

NextOver(Rs, Cs, Qs) ==
  \/ Register(Cs)
  \/ WillStartResolve
  \/ WillStartReject
  \/ Arrive(Rs, Qs)
  \/ PassGate(Rs)
  \/ ParseBody(Rs)
  \/ Upload(Rs)
  \/ Health(Rs)
  \/ Engine(Rs)

\* Requests with a one-entry accept list.
BasicRequests == { q \in AllRequests : Len(q.accept) = 1 /\ q.accept[1] # "*/*" }

\* Registrations that leave cors and bodyParserConfig at their defaults.
DefaultRegistrations ==
  { c \in AllRegistrations : c.cors = "undefined" /\ c.bodyParserConfig = "undefined" }

\* A browser opening a page, and a client posting a multipart upload.
StartupRequests ==
  { q \in AllRequests :
      \/ q.method = "GET" /\ q.accept = <<"text/html">>
           /\ q.contentType = "application/json"
      \/ q.method = "POST" /\ q.accept = <<"application/json">>
           /\ q.contentType = "multipart/form-data" }

\* Registrations with cors and the body parser at their defaults, the
\* execution path at its default or on the health path, the playground on
\* the execution path or on one of its own.
StartupRegistrations ==
  { c \in DefaultRegistrations :
      /\ ~(c.disableHealthCheck /\ c.onHealthCheck)
      /\ c.path \in {Unset, HealthPath}
      /\ c.playgroundPath \in {Unset, "/play"} }

\* A server constructed with uploads and the playground enabled.
InitStartup == Init /\ uploadsConfig /\ playgroundOptions

\* One request, every registration, the basic requests: the chain.
Next == NextOver({1}, AllRegistrations, BasicRequests)
Spec == Init /\ [][Next]_vars

\* One request, every accept list, the default registrations: the dispatcher.
NextDispatch == NextOver({1}, DefaultRegistrations, AllRequests)
SpecDispatch == Init /\ [][NextDispatch]_vars

\* Concurrent requests and the shared startup future.
NextStartup == NextOver(Requests, StartupRegistrations, StartupRequests)
SpecStartup == InitStartup /\ [][NextStartup]_vars

\* The event loop runs the continuation of every settled await.
FairStartup ==
  SpecStartup /\ \A r \in Requests : WF_vars(\E env \in Envs : InitGateResume(r, env))

\* ----------------------------------------------------------- claims
Events(ctx) == { ctx.log[k] : k \in DOMAIN ctx.log }
KindOf(e) == middleware[e[1]].kind

\* The inner middleware of a stage of this kind was invoked for ctx.
Ran(ctx, kind) == \E e \in Events(ctx) : e[2] = "run" /\ KindOf(e) = kind
\* The inner middleware of a stage of this kind called its continuation.
Continued(ctx, kind) == \E e \in Events(ctx) : e[2] = "next" /\ KindOf(e) = kind
\* The inner middleware of some stage did this.
Did(ctx, what) == \E e \in Events(ctx) : e[2] = what

Active == { r \in Requests : reqs[r].phase # "idle" }
OnExecutionPath(ctx) == ctx.phase # "idle" /\ ctx.path = closure.path

\* C1: while the startup future is pending, a request to the execution path
\* has run no stage but the init gate, and the gate has not called its
\* continuation.
C1_HeldWhilePending ==
  \A r \in Requests :
    OnExecutionPath(reqs[r]) /\ promiseWillStart = "pending" =>
      /\ reqs[r].phase = "initGate"
      /\ \A e \in Events(reqs[r]) : KindOf(e) = "initGate" /\ e[2] = "run"

\* Two requests to the execution path are held at the gate, the future pending.
C1_Witness ==
  /\ promiseWillStart = "pending"
  /\ \E r, s \in Requests :
       r # s /\ OnExecutionPath(reqs[r]) /\ OnExecutionPath(reqs[s])
         /\ reqs[r].phase = "initGate" /\ reqs[s].phase = "initGate"

\* C2: once applyMiddleware has been called, willStart has been invoked
\* exactly once, whatever requests came; no step invokes it again, and a
\* settled future never changes.
C2_StartedOnce ==
  /\ [](willStartCalls = IF promiseWillStart = "none" THEN 0 ELSE 1)
  /\ [][/\ promiseWillStart # "none" => willStartCalls' = willStartCalls
        /\ promiseWillStart \in {"resolved", "rejected"}
             => promiseWillStart' = promiseWillStart]_vars

\* The routine has been started and no request has arrived yet.
C2_Witness == promiseWillStart = "pending" /\ willStartCalls = 1 /\ Active = {}

\* C3: once the future has resolved, every request held at the gate
\* eventually calls the gate's continuation.
C3_AllWaitersProceed ==
  \A r \in Requests :
    (reqs[r].phase = "initGate" /\ promiseWillStart = "resolved")
      ~> Continued(reqs[r], "initGate")

\* Every request slot has been held at the gate and has passed it.
C3_Witness ==
  /\ promiseWillStart = "resolved"
  /\ \A r \in Requests : Continued(reqs[r], "initGate")

\* C4: after the future has rejected, a request to the execution path waits
\* at the gate or has failed with the startup error; it has run the gate
\* only, nothing of the response was written, and willStart was not invoked
\* again.
C4_StartupFailureSurfaces ==
  promiseWillStart = "rejected" =>
    /\ willStartCalls = 1
    /\ \A r \in Requests :
         OnExecutionPath(reqs[r]) =>
           /\ \/ reqs[r].phase = "initGate"
              \/ reqs[r].phase = "failed" /\ reqs[r].error = "startup"
           /\ reqs[r].log = << <<1, "run">> >>
           /\ reqs[r].body = "" /\ reqs[r].cors = "" /\ reqs[r].requestBody = ""

\* A request to the execution path has failed with the startup error.
C4_Witness ==
  \E r \in Requests :
    OnExecutionPath(reqs[r]) /\ reqs[r].phase = "failed" /\ reqs[r].error = "startup"

\* The fixed order of the stages: init gate, health check, CORS, body
\* parser, upload interceptor, dispatcher, explorer-only handler.
Rank(kind) ==
  CASE kind = "initGate" -> 1
    [] kind = "healthCheck" -> 2
    [] kind = "cors" -> 3
    [] kind = "bodyParser" -> 4
    [] kind = "upload" -> 5
    [] kind = "dispatcher" -> 6
    [] kind = "playground" -> 7

\* Stage j handed the request ctx on before position k of its log: its inner
\* middleware called next if the stage matched the path, its gate if not.
PassedOnBefore(ctx, j, k) ==
  \E l \in 1..(k - 1) :
    ctx.log[l] = <<j, IF middleware[j].path = ctx.path THEN "next" ELSE "skip">>

\* C5: when a stage starts for a request, every registered stage that comes
\* earlier in the fixed order has handed the request on: by its continuation
\* if it matched the request, by its path gate if it did not.
C5_FixedOrder ==
  \A r \in Requests :
    \A k \in DOMAIN reqs[r].log :
      reqs[r].log[k][2] = "run" =>
        \A j \in DOMAIN middleware :
          Rank(middleware[j].kind) < Rank(KindOf(reqs[r].log[k]))
            => PassedOnBefore(reqs[r], j, k)

\* A request has run the gate, CORS, the body parser, the upload interceptor
\* and the dispatcher, and skipped the health check.
C5_Witness ==
  \E r \in Requests :
    /\ \A kind \in {"initGate", "cors", "bodyParser", "upload", "dispatcher"} :
         Ran(reqs[r], kind)
    /\ Did(reqs[r], "skip") /\ Did(reqs[r], "processFileUploads")
    /\ reqs[r].phase = "done"

\* Stage i was reached by the request: it is the first, or the stage before
\* it handed the request on.
Reached(ctx, i) ==
  i = 1 \/ <<i - 1, "skip">> \in Events(ctx) \/ <<i - 1, "next">> \in Events(ctx)

Count(ctx, e) == Cardinality({ k \in DOMAIN ctx.log : ctx.log[k] = e })

\* C6: for a request that reached a stage registered on another path, the
\* inner middleware was not invoked (the stage did nothing but call the
\* continuation, once); on the stage's own path the inner middleware was
\* invoked, once, and the gate did not call the continuation.
C6_PathGate ==
  \A r \in Active : \A i \in DOMAIN middleware :
    IF reqs[r].path # middleware[i].path
      THEN /\ \A e \in Events(reqs[r]) : e[1] = i => e = <<i, "skip">>
           /\ Count(reqs[r], <<i, "skip">>) = IF Reached(reqs[r], i) THEN 1 ELSE 0
      ELSE /\ <<i, "skip">> \notin Events(reqs[r])
           /\ Count(reqs[r], <<i, "run">>) = IF Reached(reqs[r], i) THEN 1 ELSE 0

\* A request went past the gate of a stage on another path and into a stage
\* on its own.
C6_Witness ==
  \E r \in Active : \E i, j \in DOMAIN middleware :
    /\ reqs[r].path # middleware[i].path /\ <<i, "skip">> \in Events(reqs[r])
    /\ reqs[r].path = middleware[j].path /\ <<j, "run">> \in Events(reqs[r])
    /\ i < j

PlaygroundOnExecutionPath ==
  closure.playgroundRenderPageOptions /\ closure.path = closure.playgroundPath

\* The response is the explorer page, and the engine was not invoked.
GotPlayground(ctx) ==
  /\ ctx.phase = "done"
  /\ ctx.type = "text/html" /\ ctx.body = "playground"
  /\ ~Did(ctx, "graphqlKoa")

\* C7: with the explorer on the execution path, a GET with accept text/html
\* that reached the dispatcher got the explorer page as text/html; the
\* engine was not invoked and the dispatcher did not call its continuation.
C7_HtmlGetsPlayground ==
  \A r \in Requests :
    /\ PlaygroundOnExecutionPath
    /\ reqs[r].method = "GET" /\ reqs[r].accept = <<"text/html">>
    /\ Ran(reqs[r], "dispatcher")
    => GotPlayground(reqs[r]) /\ ~Continued(reqs[r], "dispatcher")

\* Such a GET has been answered with the explorer page.
C7_Witness ==
  \E r \in Requests :
    /\ PlaygroundOnExecutionPath
    /\ reqs[r].method = "GET" /\ reqs[r].accept = <<"text/html">>
    /\ Ran(reqs[r], "dispatcher") /\ GotPlayground(reqs[r])

\* The first entry of the list that is text/html or application/json is
\* text/html.
HtmlRankedFirst(types) ==
  \E k \in 1..Len(types) :
    /\ types[k] = "text/html"
    /\ \A l \in 1..(k - 1) : types[l] \notin {"text/html", "application/json"}

\* C8: with the explorer on the execution path, a GET that reached the
\* dispatcher got the explorer page exactly when text/html is the first of
\* text/html and application/json in its accept list; otherwise the engine
\* was invoked and the page was not rendered.
C8_TieBreak ==
  \A r \in Requests :
    PlaygroundOnExecutionPath /\ reqs[r].method = "GET" /\ Ran(reqs[r], "dispatcher")
    => IF HtmlRankedFirst(reqs[r].accept)
         THEN Did(reqs[r], "renderPlaygroundPage") /\ ~Did(reqs[r], "graphqlKoa")
         ELSE Did(reqs[r], "graphqlKoa") /\ ~Did(reqs[r], "renderPlaygroundPage")

\* A GET ranking application/json before text/html went to the engine.
C8_Witness ==
  \E r \in Requests :
    /\ PlaygroundOnExecutionPath /\ reqs[r].method = "GET"
    /\ reqs[r].accept = <<"application/json", "text/html">>
    /\ Did(reqs[r], "graphqlKoa") /\ reqs[r].body = "graphql"

\* C9: the explorer page is never rendered for a POST on the execution path;
\* a POST that reached the dispatcher was handed to the engine; and a POST
\* that ended without an error was answered by the engine (or, on an
\* execution path that is the health path, by the health check before it).
C9_PostDelegates ==
  \A r \in Requests :
    OnExecutionPath(reqs[r]) /\ reqs[r].method = "POST" =>
      /\ ~Did(reqs[r], "renderPlaygroundPage")
      /\ reqs[r].body # "playground"
      /\ Ran(reqs[r], "dispatcher") =>
           /\ Did(reqs[r], "graphqlKoa")
           /\ reqs[r].phase \in {"engine", "done"}
      /\ reqs[r].phase = "done" /\ ~Ran(reqs[r], "healthCheck") =>
           Did(reqs[r], "graphqlKoa") /\ reqs[r].body = "graphql"

\* A POST accepting text/html, the explorer on the execution path, answered
\* by the engine.
C9_Witness ==
  \E r \in Requests :
    /\ PlaygroundOnExecutionPath
    /\ OnExecutionPath(reqs[r]) /\ reqs[r].method = "POST"
    /\ reqs[r].accept = <<"text/html">>
    /\ reqs[r].phase = "done" /\ reqs[r].body = "graphql"

PlaygroundOnOwnPath ==
  closure.playgroundRenderPageOptions /\ closure.path # closure.playgroundPath

\* The health check handler is registered on this path.
HealthCheckOn(path) ==
  \E i \in DOMAIN middleware :
    middleware[i].kind = "healthCheck" /\ middleware[i].path = path

\* C10: with the explorer on a path of its own, a request that reached the
\* explorer handler got the explorer page as text/html whatever its method
\* and accept list, the engine not invoked; and every request to the
\* explorer path reached the handler, unless the health check is registered
\* on that very path.
C10_PlaygroundUnconditional ==
  \A r \in Active :
    PlaygroundOnOwnPath /\ reqs[r].path = closure.playgroundPath =>
      /\ Ran(reqs[r], "playground") => GotPlayground(reqs[r])
      /\ ~HealthCheckOn(reqs[r].path) => Ran(reqs[r], "playground")

\* A POST and a GET accepting only application/json got the explorer page
\* on the explorer path.
C10_Witness ==
  \E r \in Active :
    /\ PlaygroundOnOwnPath /\ reqs[r].path = closure.playgroundPath
    /\ reqs[r].accept = <<"application/json">>
    /\ GotPlayground(reqs[r])

\* C11 as stated: whatever the explorer path, a request that reached the
\* dispatcher got the explorer page exactly when it is a GET, an explorer
\* configuration is present and text/html is ranked first; otherwise the
\* engine was invoked.
C11_AsStated ==
  \A r \in Requests :
    Ran(reqs[r], "dispatcher") =>
      IF /\ reqs[r].method = "GET"
         /\ closure.playgroundRenderPageOptions
         /\ HtmlRankedFirst(reqs[r].accept)
        THEN Did(reqs[r], "renderPlaygroundPage") /\ ~Did(reqs[r], "graphqlKoa")
        ELSE Did(reqs[r], "graphqlKoa") /\ ~Did(reqs[r], "renderPlaygroundPage")

\* C11 (amended): a request that reached the dispatcher got the explorer
\* page, the continuation not called, exactly when it is a GET, an explorer
\* configuration is present, the explorer path is the execution path and
\* text/html is ranked first; in every other case the engine was invoked.
C11_DispatcherChoice ==
  \A r \in Requests :
    Ran(reqs[r], "dispatcher") =>
      /\ ~Continued(reqs[r], "dispatcher")
      /\ IF /\ reqs[r].method = "GET"
            /\ closure.playgroundRenderPageOptions
            /\ closure.path = closure.playgroundPath
            /\ HtmlRankedFirst(reqs[r].accept)
           THEN Did(reqs[r], "renderPlaygroundPage") /\ ~Did(reqs[r], "graphqlKoa")
           ELSE Did(reqs[r], "graphqlKoa") /\ ~Did(reqs[r], "renderPlaygroundPage")

\* The explorer on a path of its own: a GET on the execution path ranking
\* text/html first was answered by the engine.
C11_Witness ==
  \E r \in Requests :
    /\ PlaygroundOnOwnPath
    /\ reqs[r].method = "GET" /\ HtmlRankedFirst(reqs[r].accept)
    /\ Ran(reqs[r], "dispatcher")
    /\ reqs[r].phase = "done" /\ reqs[r].body = "graphql"

\* The upload processor rejected for this request with an error that has a
\* status and is to be exposed.
ExposableUploadError(ctx) ==
  /\ ctx.uploadError # <<>>
  /\ ctx.uploadError[1].status # 0 /\ ctx.uploadError[1].expose

\* C12: a request whose upload processor rejected with an exposable status
\* has that status, has failed with the formatted error, did not get past
\* the interceptor (no continuation, no dispatcher, no engine), and the step
\* of the rejection left its request body as it was.
C12_ExposedUploadStatus ==
  /\ [](\A r \in Requests :
          ExposableUploadError(reqs[r]) =>
            /\ reqs[r].status = reqs[r].uploadError[1].status
            /\ reqs[r].phase = "failed" /\ reqs[r].error = "formatted"
            /\ ~Continued(reqs[r], "upload")
            /\ ~Ran(reqs[r], "dispatcher") /\ ~Did(reqs[r], "graphqlKoa")
            /\ reqs[r].requestBody # "uploads")
  /\ [][\A r \in Requests :
          reqs[r].phase = "upload" /\ ExposableUploadError(reqs[r])'
            => reqs'[r].requestBody = reqs[r].requestBody]_vars

\* A multipart request whose body had been parsed failed with status 422.
C12_Witness ==
  \E r \in Requests :
    /\ reqs[r].uploadError = << [status |-> 422, expose |-> TRUE] >>
    /\ reqs[r].contentType = "multipart/form-data"
    /\ reqs[r].status = 422 /\ reqs[r].phase = "failed"
    /\ Continued(reqs[r], "bodyParser") /\ reqs[r].requestBody = "empty"

CountOf(ctx, kind, what) ==
  Cardinality({ k \in DOMAIN ctx.log :
                  ctx.log[k][2] = what /\ KindOf(ctx.log[k]) = kind })

\* C13: for a request that is not multipart and reached the upload
\* interceptor, the processor was not invoked, the continuation was called
\* once, the request body is what the body parser left, and no status was
\* set (the status is Koa's: 404, or 200 once a later stage set a body).
C13_UploadPassThrough ==
  \A r \in Requests :
    Ran(reqs[r], "upload") /\ reqs[r].contentType # "multipart/form-data" =>
      /\ ~Did(reqs[r], "processFileUploads")
      /\ reqs[r].uploadError = <<>>
      /\ CountOf(reqs[r], "upload", "next") = 1
      /\ reqs[r].requestBody =
           IF Continued(reqs[r], "bodyParser") THEN "parsed" ELSE ""
      /\ ~reqs[r].explicitStatus
      /\ reqs[r].status = IF reqs[r].body = "" THEN 404 ELSE 200
      /\ reqs[r].error = "none"

\* A JSON request went through the interceptor and on to the engine.
C13_Witness ==
  \E r \in Requests :
    /\ Ran(reqs[r], "upload") /\ reqs[r].contentType = "application/json"
    /\ Continued(reqs[r], "upload") /\ reqs[r].requestBody = "parsed"
    /\ reqs[r].phase = "engine" /\ reqs[r].status = 404

\* C14: with the health check registered and no callback, a request to the
\* health path that reached the handler is done with status 200, type
\* application/health+json and body pass; the handler did not call its
\* continuation and no later stage ran.  Unless the execution path is the
\* health path itself (the init gate then stands before the handler), every
\* request to the health path reached the handler.
C14_HealthPass ==
  \A r \in Active :
    /\ reqs[r].path = HealthPath
    /\ HealthCheckOn(HealthPath) /\ ~closure.onHealthCheck
    => /\ Ran(reqs[r], "healthCheck") =>
            /\ reqs[r].phase = "done"
            /\ reqs[r].status = 200
            /\ reqs[r].type = "application/health+json"
            /\ reqs[r].body = "pass"
            /\ ~Continued(reqs[r], "healthCheck")
            /\ \A e \in Events(reqs[r]) :
                 e[2] = "run" => KindOf(e) \in {"initGate", "healthCheck"}
       /\ closure.path # HealthPath => Ran(reqs[r], "healthCheck")
       /\ reqs[r].phase = "done" => Ran(reqs[r], "healthCheck")

\* A request to the health path was answered 200 / pass.
C14_Witness ==
  \E r \in Active :
    /\ reqs[r].path = HealthPath /\ closure.path # HealthPath
    /\ ~closure.onHealthCheck /\ Ran(reqs[r], "healthCheck")
    /\ reqs[r].status = 200 /\ reqs[r].body = "pass"

\* C15: a request whose health callback was invoked has no body and no
\* status while the returned promise is pending; once it rejected the
\* request is done with 503 / fail, once it resolved with 200 / pass.
C15_HealthCallback ==
  \A r \in Requests :
    Did(reqs[r], "onHealthCheck") /\ reqs[r].phase # "failed" =>
      /\ reqs[r].type = "application/health+json"
      /\ reqs[r].phase \in {"health", "done"}
      /\ reqs[r].phase = "health" =>
           /\ reqs[r].body = "" /\ reqs[r].status = 404
           /\ ~Did(reqs[r], "onHealthCheck.then")
           /\ ~Did(reqs[r], "onHealthCheck.catch")
      /\ reqs[r].phase = "done" =>
           Did(reqs[r], "onHealthCheck.then") # Did(reqs[r], "onHealthCheck.catch")
      /\ Did(reqs[r], "onHealthCheck.catch") =>
           reqs[r].status = 503 /\ reqs[r].body = "fail"
      /\ Did(reqs[r], "onHealthCheck.then") =>
           reqs[r].status = 200 /\ reqs[r].body = "pass"

\* A health callback rejected and the request was answered 503 / fail.
C15_Witness ==
  \E r \in Requests :
    /\ Did(reqs[r], "onHealthCheck.catch")
    /\ reqs[r].phase = "done" /\ reqs[r].status = 503 /\ reqs[r].body = "fail"

\* C16 as stated: a request whose health callback was invoked never ends
\* with an error propagated to the host.
C16_NeverPropagates ==
  \A r \in Requests :
    Did(reqs[r], "onHealthCheck") => reqs[r].phase # "failed"

KindsAt(mw, kind) == { i \in DOMAIN mw : mw[i].kind = kind }

\* The chain mw holds one CORS stage, with these options, on this path,
\* after the health check and before the body parser.
CorsRegistered(mw, path, opts) ==
  /\ Cardinality(KindsAt(mw, "cors")) = 1
  /\ \A i \in KindsAt(mw, "cors") :
       /\ mw[i].path = path /\ mw[i].opts = opts
       /\ \A j \in KindsAt(mw, "initGate") \cup KindsAt(mw, "healthCheck") : j < i
       /\ \A j \in KindsAt(mw, "bodyParser") \cup KindsAt(mw, "upload")
                     \cup KindsAt(mw, "dispatcher") : i < j

\* C17: a registration with cors false leaves no CORS stage in the chain,
\* with cors true one CORS stage with the default options on the execution
\* path between the health check and the body parser, with an options
\* object one with those options.  A request carries the CORS headers of the
\* registered stage once it has reached that stage, and no CORS headers in
\* every other case; a request to the execution path that ended without
\* error carries them (unless the health check, on an execution path that is
\* the health path, answered before).
C17_CorsPolicy ==
  /\ [][promiseWillStart = "none" /\ promiseWillStart' # "none" =>
          \A c \in AllRegistrations :
            pathOf(c) = graphqlPath' /\ ApplyMiddleware(c) =>
              /\ c.cors = "false" => KindsAt(middleware', "cors") = {}
              /\ c.cors = "true" => CorsRegistered(middleware', pathOf(c), "default")
              /\ c.cors = "options" => CorsRegistered(middleware', pathOf(c), "options")
       ]_vars
  /\ [](\A r \in Active :
          /\ Cardinality(KindsAt(middleware, "cors")) <= 1
          /\ KindsAt(middleware, "cors") = {} \/ ~Ran(reqs[r], "cors")
               => reqs[r].cors = ""
          /\ \A i \in KindsAt(middleware, "cors") :
               /\ Ran(reqs[r], "cors") =>
                    reqs[r].cors = middleware[i].opts /\ Continued(reqs[r], "cors")
               /\ /\ OnExecutionPath(reqs[r]) /\ reqs[r].phase = "done"
                  /\ ~Ran(reqs[r], "healthCheck")
                  => Ran(reqs[r], "cors"))

\* A request to the execution path was answered by the engine with the
\* default CORS headers.
C17_Witness ==
  \E r \in Active :
    /\ OnExecutionPath(reqs[r]) /\ reqs[r].phase = "done"
    /\ reqs[r].body = "graphql" /\ reqs[r].cors = "default"
    /\ KindsAt(middleware, "bodyParser") # {}

\* C18: a request whose upload processor rejected has failed with the
\* formatted error and the interceptor did not call its continuation; the
\* step of the rejection set the status to the error's when the error has a
\* status and is to be exposed, and left the status alone otherwise.
C18_UploadErrorPropagates ==
  /\ [](\A r \in Requests :
          /\ reqs[r].uploadError # <<>> =>
               /\ reqs[r].phase = "failed" /\ reqs[r].error = "formatted"
               /\ ~Continued(reqs[r], "upload")
               /\ Did(reqs[r], "processFileUploads")
          /\ Did(reqs[r], "processFileUploads") /\ reqs[r].uploadError = <<>> =>
               \/ reqs[r].phase = "upload"
               \/ Continued(reqs[r], "upload") /\ reqs[r].requestBody = "uploads")
  /\ [][\A r \in Requests :
          reqs[r].phase = "upload" /\ reqs'[r].uploadError # <<>> =>
            IF ExposableUploadError(reqs[r])'
              THEN /\ reqs'[r].status = reqs'[r].uploadError[1].status
                   /\ reqs'[r].explicitStatus
              ELSE /\ reqs'[r].status = reqs[r].status
                   /\ reqs'[r].explicitStatus = reqs[r].explicitStatus]_vars

\* An upload failed with a status that is not to be exposed: the error is
\* propagated and the status is still Koa's 404.
C18_Witness ==
  \E r \in Requests :
    /\ reqs[r].uploadError = << [status |-> 422, expose |-> FALSE] >>
    /\ reqs[r].phase = "failed" /\ reqs[r].error = "formatted"
    /\ reqs[r].status = 404

\* C19: with the health check registered and the execution path elsewhere,
\* a request to the health path never stands at the init gate: in every
\* state of the startup future it has reached the health handler, and
\* without a callback it is done with 200 / pass.
C19_HealthNotGated ==
  \A r \in Active :
    /\ reqs[r].path = HealthPath
    /\ HealthCheckOn(HealthPath) /\ closure.path # HealthPath
    => /\ ~Ran(reqs[r], "initGate") /\ reqs[r].phase # "initGate"
       /\ Ran(reqs[r], "healthCheck")
       /\ ~closure.onHealthCheck =>
            /\ reqs[r].phase = "done"
            /\ reqs[r].status = 200 /\ reqs[r].body = "pass"

\* Startup is pending, a request to the execution path is held at the gate,
\* and a request to the health path has its 200 / pass.
C19_Witness ==
  /\ promiseWillStart = "pending"
  /\ closure.path # HealthPath /\ ~closure.onHealthCheck
  /\ \E r, s \in Active :
       /\ OnExecutionPath(reqs[r]) /\ reqs[r].phase = "initGate"
       /\ reqs[s].path = HealthPath /\ reqs[s].phase = "done"
       /\ reqs[s].status = 200 /\ reqs[s].body = "pass"

\* C20: with the explorer on a path of its own, a request to that path has
\* the explorer page without having met the init gate, in every state of
\* the startup future (unless the health check is registered on that path);
\* with the explorer on the execution path, the page has been rendered only
\* for requests that passed the gate, the future resolved.
C20_GateOnExecutionPathOnly ==
  /\ PlaygroundOnOwnPath =>
       \A r \in Active :
         reqs[r].path = closure.playgroundPath /\ ~HealthCheckOn(reqs[r].path)
           => ~Ran(reqs[r], "initGate") /\ GotPlayground(reqs[r])
  /\ PlaygroundOnExecutionPath =>
       \A r \in Active :
         Did(reqs[r], "renderPlaygroundPage") =>
           promiseWillStart = "resolved" /\ Continued(reqs[r], "initGate")

\* Startup has failed, a request to the execution path has failed with it,
\* and a request to the explorer path has the explorer page.
C20_Witness ==
  /\ promiseWillStart = "rejected" /\ PlaygroundOnOwnPath
  /\ \E r, s \in Active :
       /\ OnExecutionPath(reqs[r]) /\ reqs[r].error = "startup"
       /\ reqs[s].path = closure.playgroundPath /\ GotPlayground(reqs[s])

====
